---- MODULE Spec2Model ----
(***************************************************************************)
(* A model of src/app.py: the ticker normaliser smart_ticker_formatter,    *)
(* the loader load_data_and_name with its synthetic fallback, the          *)
(* indicator calculator add_indicators and the "start analysis" button     *)
(* handler of the page.                                                    *)
(*                                                                         *)
(* Strings are sequences of one-character strings.  A Chinese character    *)
(* of the source is written as its pinyin syllable and counts as one       *)
(* character: "MO","NI" is the two-character word of line 76 that the      *)
(* handler searches for on line 123.                                       *)
(*                                                                         *)
(* Floats are exact rationals [nan, num, den]; NaN is the missing value.   *)
(*                                                                         *)
(* st.cache_data (line 42) is the host framework's memo of                 *)
(* load_data_and_name: a call with arguments seen before is answered with  *)
(* a copy of the value the body returned then.  Click is a call that runs  *)
(* the body; what a run renders is a function of the value returned, so a  *)
(* run answered from the memo is in the state of the run that filled it.   *)
(*                                                                         *)
(* history is a record kept for the comparison of two synthetic frames;    *)
(* the program has no such variable.                                       *)
(***************************************************************************)
EXTENDS Integers, Sequences, FiniteSets, TLC

VARIABLES
    user_input,   \* st.sidebar.text_input, line 102
    start_date,   \* st.sidebar.date_input, line 103 (a day number)
    end_date,     \* st.sidebar.date_input, line 104 (a day number)
    np_random,    \* the state of numpy's global generator (np.random)
    run,          \* what the last run of the script did and rendered
    history,      \* the latest synthetic generation made before this run
    formatted,    \* the value of a call of smart_ticker_formatter
    df            \* the frame handed to add_indicators, changed in place

vars == <<user_input, start_date, end_date, np_random, run, history, formatted, df>>

----------------------------------------------------------------------------
(* Bounds of the model. *)

\* The longest text handed to the formatter.
MaxLen == 7

----------------------------------------------------------------------------
(* Characters and the str methods used on line 30 and line 32. *)

Digits == {"0", "1", "2", "3", "4", "5", "6", "7", "8", "9"}

Whitespace == {" ", "\t"}

LowerCase == <<"a", "b", "c", "d", "e", "f", "g", "h", "i", "j", "k", "l", "m",
               "n", "o", "p", "q", "r", "s", "t", "u", "v", "w", "x", "y", "z">>

UpperCase == <<"A", "B", "C", "D", "E", "F", "G", "H", "I", "J", "K", "L", "M",
               "N", "O", "P", "Q", "R", "S", "T", "U", "V", "W", "X", "Y", "Z">>

\* One character upper-cased.  "eszett" is the German sharp s, which
\* str.upper turns into the two characters SS.
UpperChar(c) ==
    IF \E i \in 1..Len(LowerCase) : LowerCase[i] = c
    THEN <<UpperCase[CHOOSE i \in 1..Len(LowerCase) : LowerCase[i] = c]>>
    ELSE IF c = "eszett" THEN <<"S", "S">> ELSE <<c>>

RECURSIVE upper(_)
upper(s) == IF s = <<>> THEN <<>> ELSE UpperChar(Head(s)) \o upper(Tail(s))

RECURSIVE lstrip(_)
lstrip(s) ==
    IF s # <<>> /\ Head(s) \in Whitespace THEN lstrip(Tail(s)) ELSE s

RECURSIVE rstrip(_)
rstrip(s) ==
    IF s # <<>> /\ s[Len(s)] \in Whitespace
    THEN rstrip(SubSeq(s, 1, Len(s) - 1))
    ELSE s

\* A strip that removes one whitespace character at each end only.
strip_once(s) ==
    LET l == IF s # <<>> /\ Head(s) \in Whitespace THEN Tail(s) ELSE s
    IN  IF l # <<>> /\ l[Len(l)] \in Whitespace
        THEN SubSeq(l, 1, Len(l) - 1)
        ELSE l

strip(s) == rstrip(lstrip(s))

\* str.isdigit: non-empty and every character a digit.  The digits among
\* the characters of the model are the ASCII digits.
isdigit(s) == s # <<>> /\ \A i \in 1..Len(s) : s[i] \in Digits

\* str.startswith with a tuple of one-character prefixes.
startswith(s, prefixes) == s # <<>> /\ Head(s) \in prefixes

\* Whether sub occurs in s: Python's "sub in s".
Contains(s, sub) ==
    \E i \in 1..(Len(s) - Len(sub) + 1) : SubSeq(s, i, i + Len(sub) - 1) = sub

SS == <<".", "S", "S">>
SZ == <<".", "S", "Z">>
BJ == <<".", "B", "J">>
HK == <<".", "H", "K">>

----------------------------------------------------------------------------
(* smart_ticker_formatter, lines 29-39. *)

\* The formatter with "2" left out of the Shenzhen prefixes.
smart_ticker_formatter_no2(symbol) ==
    LET s == upper(strip(symbol))
    IN  IF isdigit(s) /\ Len(s) = 6
        THEN IF startswith(s, {"6", "9"}) THEN s \o SS
             ELSE IF startswith(s, {"0", "3"}) THEN s \o SZ
             ELSE IF startswith(s, {"4", "8"}) THEN s \o BJ
             ELSE s
        ELSE s

smart_ticker_formatter(symbol) ==
    LET s == upper(strip(symbol))
    IN  IF isdigit(s) /\ Len(s) = 6
        THEN IF startswith(s, {"6", "9"}) THEN s \o SS
             ELSE IF startswith(s, {"0", "3", "2"}) THEN s \o SZ
             ELSE IF startswith(s, {"4", "8"}) THEN s \o BJ
             ELSE s
        ELSE s

----------------------------------------------------------------------------
(* Floats: exact rationals, with NaN for a missing value. *)

NaN == [nan |-> TRUE, num |-> 0, den |-> 1]

Num(x) == [nan |-> FALSE, num |-> x, den |-> 1]

FAdd(a, b) ==
    IF a.nan \/ b.nan THEN NaN
    ELSE [nan |-> FALSE, num |-> a.num * b.den + b.num * a.den, den |-> a.den * b.den]

FSub(a, b) ==
    IF a.nan \/ b.nan THEN NaN
    ELSE [nan |-> FALSE, num |-> a.num * b.den - b.num * a.den, den |-> a.den * b.den]

FMul(a, b) ==
    IF a.nan \/ b.nan THEN NaN
    ELSE [nan |-> FALSE, num |-> a.num * b.num, den |-> a.den * b.den]

\* a / b for b other than zero (Python raises ZeroDivisionError on zero).
FDiv(a, b) ==
    IF a.nan \/ b.nan THEN NaN
    ELSE IF b.num > 0
         THEN [nan |-> FALSE, num |-> a.num * b.den, den |-> a.den * b.num]
         ELSE [nan |-> FALSE, num |-> 0 - (a.num * b.den), den |-> 0 - (a.den * b.num)]

\* Equality of floats: NaN equals nothing.
FEq(a, b) == ~a.nan /\ ~b.nan /\ a.num * b.den = b.num * a.den

\* A cell of a column as the provider delivers it: a float or a text.
NumCell(x) == [str |-> FALSE, text |-> <<>>, val |-> Num(x)]

FloatCell(f) == [str |-> FALSE, text |-> <<>>, val |-> f]

StrCell(t) == [str |-> TRUE, text |-> t, val |-> NaN]

----------------------------------------------------------------------------
(* KNOWN_CHINESE_NAMES, lines 11-26. *)

KNOWN_CHINESE_NAMES ==
    [k \in {<<"6", "0", "0", "5", "1", "9", ".", "S", "S">>,
            <<"3", "0", "0", "7", "5", "0", ".", "S", "Z">>,
            <<"0", "0", "0", "8", "5", "8", ".", "S", "Z">>,
            <<"6", "0", "0", "0", "3", "6", ".", "S", "S">>,
            <<"6", "0", "1", "3", "1", "8", ".", "S", "S">>,
            <<"0", "0", "2", "5", "9", "4", ".", "S", "Z">>,
            <<"0", "0", "0", "0", "0", "1", ".", "S", "Z">>,
            <<"0", "7", "0", "0", ".", "H", "K">>,
            <<"3", "6", "9", "0", ".", "H", "K">>,
            <<"9", "9", "8", "8", ".", "H", "K">>,
            <<"N", "V", "D", "A">>,
            <<"A", "A", "P", "L">>,
            <<"T", "S", "L", "A">>,
            <<"M", "S", "F", "T">>} |->
        CASE k = <<"6", "0", "0", "5", "1", "9", ".", "S", "S">> -> <<"GUI", "ZHOU", "MAO", "TAI">>
          [] k = <<"3", "0", "0", "7", "5", "0", ".", "S", "Z">> -> <<"NING", "DE", "SHI", "DAI">>
          [] k = <<"0", "0", "0", "8", "5", "8", ".", "S", "Z">> -> <<"WU", "LIANG", "YE">>
          [] k = <<"6", "0", "0", "0", "3", "6", ".", "S", "S">> -> <<"ZHAO", "SHANG", "YIN", "HANG">>
          [] k = <<"6", "0", "1", "3", "1", "8", ".", "S", "S">> -> <<"ZHONG", "GUO", "PING", "AN">>
          [] k = <<"0", "0", "2", "5", "9", "4", ".", "S", "Z">> -> <<"BI", "YA", "DI">>
          [] k = <<"0", "0", "0", "0", "0", "1", ".", "S", "Z">> -> <<"PING", "AN", "YIN", "HANG">>
          [] k = <<"0", "7", "0", "0", ".", "H", "K">> -> <<"TENG", "XUN", "KONG", "GU">>
          [] k = <<"3", "6", "9", "0", ".", "H", "K">> -> <<"MEI", "TUAN">>
          [] k = <<"9", "9", "8", "8", ".", "H", "K">> -> <<"A", "LI", "BA", "BA">>
          [] k = <<"N", "V", "D", "A">> -> <<"N", "V", "I", "D", "I", "A">>
          [] k = <<"A", "A", "P", "L">> -> <<"A", "p", "p", "l", "e">>
          [] k = <<"T", "S", "L", "A">> -> <<"T", "e", "s", "l", "a">>
          [] k = <<"M", "S", "F", "T">> -> <<"M", "i", "c", "r", "o", "s", "o", "f", "t">>]

----------------------------------------------------------------------------
(* numpy's global generator, lines 80, 81 and 87.  The generator is a      *)
(* deterministic function of its state; a linear congruential step stands  *)
(* for the Mersenne Twister.                                               *)

\* The number of generator states.
RngMod == 4

\* The seed of line 80.
SEED == 42

\* A seed call that leaves the generator as it was.
seed_ignored(state, s) == state

\* np.random.seed(seed): the state depends on the seed alone.
seed(state, s) == s % RngMod

rng_step(state) == (state + 3) % RngMod

\* The states the generator passes through in n draws from state.
RECURSIVE rng_states(_, _)
rng_states(state, n) ==
    IF n <= 0 THEN <<>> ELSE <<rng_step(state)>> \o rng_states(rng_step(state), n - 1)

rng_after(state, n) == IF n <= 0 THEN state ELSE rng_states(state, n)[n]

\* np.random.randn(n): n standard-normal draws, here whole steps in -1..1.
randn(state, n) == [i \in 1..n |-> Num((rng_states(state, n)[i] % 3) - 1)]

\* The bounds of line 87.
VOLUME_LOW == 1000000

VOLUME_HIGH == 5000000

\* np.random.randint(low, high, size=n): n integers in low..high-1.
randint(state, low, high, n) ==
    [i \in 1..n |-> Num(low + ((rng_states(state, n)[i] * 611953) % (high - low)))]

\* np.cumsum.
RECURSIVE cumsum(_)
cumsum(xs) ==
    IF xs = <<>> THEN <<>>
    ELSE LET front == cumsum(SubSeq(xs, 1, Len(xs) - 1))
         IN  Append(front, IF front = <<>> THEN xs[Len(xs)]
                           ELSE FAdd(front[Len(front)], xs[Len(xs)]))

\* pd.date_range(start=start, end=end): every day from start to end, none
\* when start is later than end.
date_range(start, end) ==
    IF start > end THEN <<>> ELSE [i \in 1..(end - start + 1) |-> start + i - 1]

\* The base level of line 82.
BASE_PRICE == 100

----------------------------------------------------------------------------
(* What the two remote calls of load_data_and_name can do. *)

\* ticker_obj.info, line 57: it raises, or it is a dictionary with some of
\* the keys shortName and longName.
INFO_SHORT == <<"A", "c", "m", "e">>

INFO_LONG == <<"A", "c", "m", "e", " ", "I", "n", "c">>

InfoOutcomes ==
    {[raises |-> TRUE, keys |-> {}],
     [raises |-> FALSE, keys |-> {}],
     [raises |-> FALSE, keys |-> {"longName"}],
     [raises |-> FALSE, keys |-> {"shortName", "longName"}]}

\* The outcome recorded when the name comes from KNOWN_CHINESE_NAMES and
\* line 57 is not reached.
InfoNotAsked == [raises |-> FALSE, keys |-> {}]

\* A response of yf.download: the dates are the index, the columns carry
\* one level of labels or two.
Response(closes, multi) ==
    [multi |-> multi,
     index |-> [i \in 1..Len(closes) |-> i],
     data  |-> [Open |-> closes, High |-> closes, Low |-> closes, Close |-> closes,
                Volume |-> [i \in 1..Len(closes) |-> NumCell(1000)]]]

NOT_AVAILABLE == <<"N", "/", "A">>

\* The responses of the model: none, one row, three rows of which two are
\* texts, two rows whose first close is zero.
Responses ==
    <<Response(<<>>, FALSE),
      Response(<<NumCell(50)>>, FALSE),
      Response(<<StrCell(NOT_AVAILABLE), StrCell(<<"2", "0">>), NumCell(30)>>, TRUE),
      Response(<<NumCell(0), NumCell(5)>>, FALSE)>>

\* yf.download raises; or it returns response number k, and lines 69-72
\* then raise or do not (they are not reached for an empty response).
DownloadOutcomes ==
    {[raises |-> TRUE, response |-> 1, clean_raises |-> FALSE]}
    \cup {[raises |-> FALSE, response |-> k, clean_raises |-> FALSE] :
            k \in DOMAIN Responses}
    \cup {[raises |-> FALSE, response |-> 2, clean_raises |-> TRUE]}

----------------------------------------------------------------------------
(* load_data_and_name, lines 43-90. *)

DATA_SOURCE_YAHOO == <<"Y", "a", "h", "o", "o", " ", "F", "i", "n", "a", "n", "c", "e">>

\* The label of line 76.
DATA_SOURCE_SIMULATED ==
    <<"MO", "NI", "YAN", "SHI", "MO", "SHI", " ", "(",
      "SHU", "JU", "HUO", "QU", "SHI", "BAI", ")">>

\* The name of line 77.
simulated_name(formatted_ticker) ==
    <<"MO", "NI", "GONG", "SI", " ", "(">> \o formatted_ticker \o <<")">>

\* info.get('shortName', info.get('longName', formatted_ticker)), line 58.
info_name(info, formatted_ticker) ==
    IF "shortName" \in info.keys THEN INFO_SHORT
    ELSE IF "longName" \in info.keys THEN INFO_LONG
    ELSE formatted_ticker

\* A lookup whose failure leaves the name empty.
resolve_name_no_default(formatted_ticker, info) ==
    IF formatted_ticker \in DOMAIN KNOWN_CHINESE_NAMES
    THEN KNOWN_CHINESE_NAMES[formatted_ticker]
    ELSE IF info.raises THEN <<>>
    ELSE info_name(info, formatted_ticker)

\* Lines 46-60: the name found before the download.
resolve_name(formatted_ticker, info) ==
    IF formatted_ticker \in DOMAIN KNOWN_CHINESE_NAMES
    THEN KNOWN_CHINESE_NAMES[formatted_ticker]
    ELSE IF info.raises THEN formatted_ticker
    ELSE info_name(info, formatted_ticker)

\* Lines 69-72: one level of column labels, the dates as the column Date.
clean(response) == [Date |-> response.index] @@ response.data

\* Lines 79-88: the synthetic frame and the generator state left behind.
fallback(start, end, state) ==
    LET days == date_range(start, end)
        n == Len(days)
        seeded == seed(state, SEED)
        price_changes == randn(seeded, n)
        walk == cumsum(price_changes)
        prices == [i \in 1..n |-> FAdd(Num(BASE_PRICE), walk[i])]
        drawn == rng_after(seeded, n)
    IN  [df |-> [Date   |-> days,
                 Open   |-> [i \in 1..n |-> FloatCell(prices[i])],
                 High   |-> [i \in 1..n |-> FloatCell(FAdd(prices[i], Num(1)))],
                 Low    |-> [i \in 1..n |-> FloatCell(FSub(prices[i], Num(1)))],
                 Close  |-> [i \in 1..n |-> FloatCell(prices[i])],
                 Volume |-> [i \in 1..n |->
                               FloatCell(randint(drawn, VOLUME_LOW, VOLUME_HIGH, n)[i])]],
         state |-> rng_after(drawn, n)]

\* A fallback that keeps the name found before the download.
fallback_name_kept(formatted_ticker, stock_name) == stock_name

\* The name returned on the fallback path.
fallback_name(formatted_ticker, stock_name) == simulated_name(formatted_ticker)

\* The return value of load_data_and_name, with the generator state it
\* leaves and, in synthetic, which of the two paths built df.
load_data_and_name(ticker, start, end, info, download, state) ==
    LET formatted_ticker == smart_ticker_formatter(ticker)
        stock_name == resolve_name(formatted_ticker, info)
        response == Responses[download.response]
        raised == \/ download.raises
                  \/ response.index = <<>>
                  \/ download.clean_raises
        generated == fallback(start, end, state)
    IN  IF raised
        THEN [df |-> generated.df,
              data_source |-> DATA_SOURCE_SIMULATED,
              formatted_ticker |-> formatted_ticker,
              stock_name |-> fallback_name(formatted_ticker, stock_name),
              synthetic |-> TRUE,
              state |-> generated.state]
        ELSE [df |-> clean(response),
              data_source |-> DATA_SOURCE_YAHOO,
              formatted_ticker |-> formatted_ticker,
              stock_name |-> stock_name,
              synthetic |-> FALSE,
              state |-> state]

----------------------------------------------------------------------------
(* add_indicators, lines 92-96. *)

WINDOW_20 == 20

WINDOW_50 == 50

\* The value of a text of digits.
RECURSIVE parse_digits(_)
parse_digits(t) ==
    IF t = <<>> THEN 0
    ELSE 10 * parse_digits(SubSeq(t, 1, Len(t) - 1))
         + (CHOOSE d \in 0..9 : ToString(d) = t[Len(t)])

\* pd.to_numeric(errors='coerce') on one cell.  The texts of the model are
\* texts of digits, which parse, and texts with no number in them.
to_numeric_cell(cell) ==
    IF cell.str
    THEN IF isdigit(cell.text) THEN Num(parse_digits(cell.text)) ELSE NaN
    ELSE cell.val

to_numeric(column) == [i \in 1..Len(column) |-> FloatCell(to_numeric_cell(column[i]))]

\* Series.rolling(window).mean() as pandas computes it: a running sum and a
\* running count of the values that are not missing; the value entering the
\* window is added, the one leaving it is removed, and a row whose count is
\* below min_periods is missing.
RECURSIVE roll_mean(_, _, _, _, _, _)
roll_mean(xs, window, min_periods, i, sum_x, nobs) ==
    IF i > Len(xs) THEN <<>>
    ELSE LET entering == xs[i]
             sum_in  == IF entering.nan THEN sum_x ELSE FAdd(sum_x, entering)
             nobs_in == IF entering.nan THEN nobs ELSE nobs + 1
             leaves  == i > window
             leaving == IF leaves THEN xs[i - window] ELSE NaN
             sum_out  == IF leaving.nan THEN sum_in ELSE FSub(sum_in, leaving)
             nobs_out == IF leaving.nan THEN nobs_in ELSE nobs_in - 1
             value == IF nobs_out >= min_periods
                      THEN FDiv(sum_out, Num(nobs_out))
                      ELSE NaN
         IN  <<value>> \o roll_mean(xs, window, min_periods, i + 1, sum_out, nobs_out)

\* A rolling mean over whatever part of the window is there.
min_periods_one(window) == 1

\* min_periods of rolling(window): the window itself when not given.
min_periods_default(window) == window

rolling_mean(column, window) ==
    LET xs == [i \in 1..Len(column) |-> column[i].val]
        means == roll_mean(xs, window, min_periods_default(window), 1, Num(0), 0)
    IN  [i \in 1..Len(column) |-> FloatCell(means[i])]

add_indicators(frame) ==
    LET close == to_numeric(frame.Close)
    IN  [c \in DOMAIN frame \cup {"SMA_20", "SMA_50"} |->
            IF c = "Close" THEN close
            ELSE IF c = "SMA_20" THEN rolling_mean(close, WINDOW_20)
            ELSE IF c = "SMA_50" THEN rolling_mean(close, WINDOW_50)
            ELSE frame[c]]

----------------------------------------------------------------------------
(* The page: the script below line 98, run once per interaction. *)

\* The longest day number of the two date inputs.
MaxDay == 2

Days == 1..MaxDay

\* The texts typed into the ticker box: the default of line 102, a lower-case
\* US ticker of the table, six digits of no exchange that are not in the table.
DEFAULT_INPUT == <<"6", "0", "0", "5", "1", "9">>

Tickers ==
    {DEFAULT_INPUT,
     <<"n", "v", "d", "a">>,
     <<"1", "2", "3", "4", "5", "6">>}

NotFormatted == [done |-> FALSE, symbol |-> <<>>, value |-> <<>>,
                 again |-> [done |-> FALSE, value |-> <<>>]]

\* Line 179: the page when the button was not pressed in this run.
Hint == [clicked |-> FALSE]

NoMetrics == [shown |-> FALSE, currency |-> "", curr_price |-> NaN,
              change |-> NaN, pct_change |-> NaN]

\* Lines 138-142.
currency_of(real_code) ==
    IF Contains(real_code, SS) \/ Contains(real_code, SZ) \/ Contains(real_code, BJ)
    THEN "CNY"
    ELSE IF Contains(real_code, HK) THEN "HK$" ELSE "$"

\* Lines 130-147: the three metrics, or raised when a statement of the try
\* block raises: iloc[-1] or iloc[-2] on a frame with no such row
\* (IndexError), the division of line 135 by a previous close of zero
\* (ZeroDivisionError).
metrics(frame, real_code) ==
    LET n == Len(frame.Date)
        curr_price == frame.Close[n].val
        prev_price == frame.Close[n - 1].val
        change == FSub(curr_price, prev_price)
    IN  IF n < 2 \/ (~prev_price.nan /\ prev_price.num = 0)
        THEN [raised |-> TRUE, shown |-> NoMetrics]
        ELSE [raised |-> FALSE,
              shown |-> [shown |-> TRUE,
                         currency |-> currency_of(real_code),
                         curr_price |-> curr_price,
                         change |-> change,
                         pct_change |-> FMul(FDiv(change, prev_price), Num(100))]]

\* A guard that lets every frame with a row through.
too_short_below_one(frame) == Len(frame.Date) < 1

\* Line 120.
too_short(frame) == Len(frame.Date) < 2

\* A warning that is never shown.
is_simulated_never(source_status) == FALSE

\* Line 123.
is_simulated(source_status) == Contains(source_status, <<"MO", "NI">>)

\* Lines 116-176: what the run renders for the value load_data_and_name
\* returned.  messages are the st.error and st.warning boxes in order.
render(loaded) ==
    LET head == [title |-> loaded.stock_name,
                 caption |-> <<loaded.formatted_ticker, loaded.data_source>>]
    IN  IF too_short(loaded.df)
        THEN head @@ [messages |-> <<"ERROR_NO_DATA">>,
                      metrics |-> NoMetrics,
                      chart |-> FALSE]
        ELSE LET frame == add_indicators(loaded.df)
                 m == metrics(frame, loaded.formatted_ticker)
             IN  head @@ [messages |->
                              (IF is_simulated(loaded.data_source)
                               THEN <<"WARNING_SIMULATED">> ELSE <<>>)
                              \o (IF m.raised THEN <<"ERROR_METRICS">> ELSE <<>>),
                          metrics |-> m.shown,
                          chart |-> TRUE]

\* The synthetic generation of a run, if it made one.
Remember(r, h) ==
    IF r.clicked /\ r.ret.synthetic
    THEN [some |-> TRUE, ticker |-> r.ticker, start |-> r.start, end |-> r.end,
          df |-> r.ret.df]
    ELSE h

Init ==
    /\ user_input = DEFAULT_INPUT
    /\ start_date = 1
    /\ end_date = MaxDay
    /\ np_random \in 0..(RngMod - 1)
    /\ run = Hint
    /\ history = [some |-> FALSE]
    /\ formatted = NotFormatted
    /\ df = <<>>

\* A widget changes: the script runs with the button not pressed.
Rerun ==
    /\ run' = Hint
    /\ history' = Remember(run, history)
    /\ UNCHANGED <<np_random, formatted, df>>

SetInput ==
    /\ \E t \in Tickers \ {user_input} : user_input' = t
    /\ UNCHANGED <<start_date, end_date>>
    /\ Rerun

SetStart ==
    /\ \E d \in Days \ {start_date} : start_date' = d
    /\ UNCHANGED <<user_input, end_date>>
    /\ Rerun

SetEnd ==
    /\ \E d \in Days \ {end_date} : end_date' = d
    /\ UNCHANGED <<user_input, start_date>>
    /\ Rerun

\* The button of line 110 is pressed: lines 111-176.
Click ==
    \E info \in InfoOutcomes, download \in DownloadOutcomes :
        LET known == smart_ticker_formatter(user_input) \in DOMAIN KNOWN_CHINESE_NAMES
            loaded == load_data_and_name(user_input, start_date, end_date,
                                         info, download, np_random)
        IN  /\ known => info = InfoNotAsked
            /\ run' = [clicked |-> TRUE,
                       ticker |-> user_input, start |-> start_date, end |-> end_date,
                       info |-> info, download |-> download,
                       ret |-> [df |-> loaded.df,
                                data_source |-> loaded.data_source,
                                formatted_ticker |-> loaded.formatted_ticker,
                                stock_name |-> loaded.stock_name,
                                synthetic |-> loaded.synthetic],
                       page |-> render(loaded)]
            /\ np_random' = loaded.state
            /\ history' = Remember(run, history)
            /\ UNCHANGED <<user_input, start_date, end_date, formatted, df>>

Next == SetInput \/ SetStart \/ SetEnd \/ Click

Spec == Init /\ [][Next]_vars

----------------------------------------------------------------------------
(* The texts the formatter is applied to. *)

\* First characters: every digit, letters of both cases, whitespace, a dot
\* and a character whose upper case is two characters long.
LeadChars == Digits \cup {"a", "A", " ", "\t", ".", "eszett"}

\* Characters after the first.
TailChars == {"0", "a", " "}

Texts(n) ==
    IF n = 0 THEN {<<>>}
    ELSE {<<c>> \o t : c \in LeadChars, t \in [1..(n - 1) -> TailChars]}

\* Texts of digits whose later digits vary.
DigitTexts(n) ==
    IF n = 0 THEN {}
    ELSE {<<c>> \o t : c \in Digits, t \in [1..(n - 1) -> {"0", "9"}]}

\* Tickers that carry their exchange already: the keys of the table, as
\* they are and between whitespace, and two in lower case.
QualifiedTexts ==
    DOMAIN KNOWN_CHINESE_NAMES
    \cup {<<" ">> \o k \o <<"\t", " ">> : k \in DOMAIN KNOWN_CHINESE_NAMES}
    \cup {<<"0", "7", "0", "0", ".", "h", "k">>,
          <<" ", "6", "0", "0", "5", "1", "9", ".", "s", "s">>}

Inputs == UNION {Texts(n) \cup DigitTexts(n) : n \in 0..MaxLen} \cup QualifiedTexts

InitFormatter ==
    /\ user_input \in Inputs
    /\ start_date = 1
    /\ end_date = MaxDay
    /\ np_random = 0
    /\ run = Hint
    /\ history = [some |-> FALSE]
    /\ formatted = NotFormatted
    /\ df = <<>>

\* A call smart_ticker_formatter(user_input), as on line 44.
Format ==
    /\ ~formatted.done
    /\ formatted' = [formatted EXCEPT !.done = TRUE, !.symbol = user_input,
                                      !.value = smart_ticker_formatter(user_input)]
    /\ UNCHANGED <<user_input, start_date, end_date, np_random, run, history, df>>

\* The formatter called on the value it returned.
FormatAgain ==
    /\ formatted.done
    /\ ~formatted.again.done
    /\ formatted' = [formatted EXCEPT
                        !.again = [done |-> TRUE,
                                   value |-> smart_ticker_formatter(formatted.value)]]
    /\ UNCHANGED <<user_input, start_date, end_date, np_random, run, history, df>>

NextFormatter == Format \/ FormatAgain

SpecFormatter == InitFormatter /\ [][NextFormatter]_vars

----------------------------------------------------------------------------
(* The frames add_indicators is applied to. *)

\* The most rows of a frame.
MaxRows == 51

\* Row i of a frame: a close in 0..9 that depends on the row and on step,
\* given as a float, as a text of digits on every fourth row, and as a
\* text with no number in it on row text_row.
CloseCell(i, step, text_row) ==
    LET close == (i * step) % 10
    IN  IF i = text_row THEN StrCell(NOT_AVAILABLE)
        ELSE IF i % 4 = 0 THEN StrCell(<<ToString(close)>>)
        ELSE NumCell(close)

IndicatorFrame(n, step, text_row) ==
    [Date |-> [i \in 1..n |-> i],
     Close |-> [i \in 1..n |-> CloseCell(i, step, text_row)]]

\* text_row 0: no text without a number.
IndicatorFrames ==
    {IndicatorFrame(n, step, text_row) :
        n \in 0..MaxRows, step \in {1, 3}, text_row \in 0..MaxRows}

InitIndicators ==
    /\ user_input = DEFAULT_INPUT
    /\ start_date = 1
    /\ end_date = MaxDay
    /\ np_random = 0
    /\ run = Hint
    /\ history = [some |-> FALSE]
    /\ formatted = NotFormatted
    /\ df \in IndicatorFrames

\* A call add_indicators(df), as on line 126.
AddIndicators ==
    /\ df' = add_indicators(df)
    /\ UNCHANGED <<user_input, start_date, end_date, np_random, run, history, formatted>>

NextIndicators == AddIndicators

SpecIndicators == InitIndicators /\ [][NextIndicators]_vars

----------------------------------------------------------------------------
(* Properties of load_data_and_name and of the page, under Spec. *)

Rows(frame) == Len(frame.Date)

\* The remote fetch of the run raised or returned no record.
FetchFailed ==
    run.download.raises \/ Responses[run.download.response].index = <<>>

\* The run returned the provider's response: the download did not raise, it
\* returned at least one record, lines 69-72 did not raise.
ProviderPath ==
    /\ ~run.download.raises
    /\ Responses[run.download.response].index # <<>>
    /\ ~run.download.clean_raises

\* The resolved ticker of the run is not in KNOWN_CHINESE_NAMES and the
\* metadata lookup raised.
LookupFailed ==
    /\ run.ret.formatted_ticker \notin DOMAIN KNOWN_CHINESE_NAMES
    /\ run.info.raises

\* The previous close of the returned series, as a number, is zero: line
\* 135 divides by it.
PrevCloseZero ==
    LET prev == to_numeric_cell(run.ret.df.Close[Rows(run.ret.df) - 1])
    IN  ~prev.nan /\ prev.num = 0

\* C1: for every ticker, start and end date and every outcome of the
\* remote fetch, load_data_and_name returns a series with at least one
\* record.
C1_SeriesNeverEmpty ==
    run.clicked => Rows(run.ret.df) >= 1

\* C4: whenever the remote fetch raises or returns zero records, the
\* returned series is synthetic, is not empty and has exactly
\* end - start + 1 records, one per day from start to end in ascending
\* order.
C4_FallbackOneRowPerDay ==
    (run.clicked /\ FetchFailed) =>
        /\ run.ret.synthetic
        /\ Rows(run.ret.df) >= 1
        /\ Rows(run.ret.df) = run.end - run.start + 1
        /\ \A i \in 1..Rows(run.ret.df) : run.ret.df.Date[i] = run.start + i - 1

\* C5, as claimed: a run whose series has fewer than two rows, or whose
\* metric computation fails, shows the computation-error message and
\* renders the chart.
C5_Original ==
    (run.clicked /\ (Rows(run.ret.df) < 2 \/ PrevCloseZero)) =>
        /\ \E i \in DOMAIN run.page.messages : run.page.messages[i] = "ERROR_METRICS"
        /\ run.page.chart

\* C5: in a run whose series has at least two rows the chart is rendered,
\* and either the metrics are shown or the computation-error message is;
\* a zero previous close gives the message.  In a run whose series has
\* fewer than two rows nothing is computed: the only message is the
\* no-valid-data error and no chart is rendered.
C5_MetricFailureCaught ==
    run.clicked =>
        IF Rows(run.ret.df) >= 2
        THEN /\ run.page.chart
             /\ run.page.metrics.shown
                   # (\E i \in DOMAIN run.page.messages :
                          run.page.messages[i] = "ERROR_METRICS")
             /\ PrevCloseZero => ~run.page.metrics.shown
        ELSE /\ run.page.messages = <<"ERROR_NO_DATA">>
             /\ ~run.page.chart
             /\ ~run.page.metrics.shown

\* A run with at least two rows whose previous close is zero.
C5_Witness ==
    /\ run.clicked
    /\ Rows(run.ret.df) >= 2
    /\ PrevCloseZero
    /\ run.page.chart

\* C6, as claimed: when the resolved ticker is not in the table and the
\* metadata lookup fails, the display name is the resolved ticker whatever
\* the history fetch does.
C6_Original ==
    (run.clicked /\ LookupFailed) => run.ret.stock_name = run.ret.formatted_ticker

\* C6: when the resolved ticker is not in the table and the metadata
\* lookup fails, the call still returns; the display name is the resolved
\* ticker when the series is the provider's, and the simulated-company
\* name of the resolved ticker when the series is synthetic.
C6_LookupFailureSilent ==
    (run.clicked /\ LookupFailed) =>
        /\ run.ret.synthetic = ~ProviderPath
        /\ run.ret.stock_name =
              IF ProviderPath THEN run.ret.formatted_ticker
              ELSE simulated_name(run.ret.formatted_ticker)

\* A failed lookup followed by a fetch that succeeded.
C6_Witness ==
    /\ run.clicked
    /\ LookupFailed
    /\ ProviderPath
    /\ run.ret.stock_name = run.ret.formatted_ticker

\* The label and the series agree on the path that was used.
LabelReportsPath ==
    /\ run.ret.data_source \in {DATA_SOURCE_YAHOO, DATA_SOURCE_SIMULATED}
    /\ run.ret.data_source = DATA_SOURCE_YAHOO <=>
          (ProviderPath /\ run.ret.df = clean(Responses[run.download.response]))
    /\ run.ret.data_source = DATA_SOURCE_SIMULATED <=> run.ret.synthetic
    /\ run.ret.synthetic <=> ~ProviderPath

WarningShown ==
    \E i \in DOMAIN run.page.messages : run.page.messages[i] = "WARNING_SIMULATED"

\* C7, as claimed: the label reports the path, and every run whose series
\* is synthetic shows the simulated-data warning.
C7_Original ==
    run.clicked => (LabelReportsPath /\ (run.ret.synthetic => WarningShown))

\* C7: the label reports the path; the simulated-data warning is shown in
\* every run whose series is synthetic and has at least two rows, and in
\* no other run: a synthetic series with fewer than two rows gives the
\* no-valid-data error alone.
C7_LabelAndWarning ==
    run.clicked =>
        /\ LabelReportsPath
        /\ WarningShown <=> (run.ret.synthetic /\ Rows(run.ret.df) >= 2)
        /\ (run.ret.synthetic /\ Rows(run.ret.df) < 2) =>
              run.page.messages = <<"ERROR_NO_DATA">>

\* A synthetic series with two rows or more, and its warning.
C7_Witness ==
    /\ run.clicked
    /\ run.ret.synthetic
    /\ Rows(run.ret.df) >= 2
    /\ WarningShown

\* C9: a synthetic series generated in this run equals the one generated
\* last before it whenever the two have the same start and end, whatever
\* the tickers and whatever state the generator was left in.
C9_FallbackDeterministic ==
    (/\ run.clicked
     /\ run.ret.synthetic
     /\ history.some
     /\ history.start = run.start
     /\ history.end = run.end) => run.ret.df = history.df

\* Two generations of two rows or more for two different tickers.
C9_Witness ==
    /\ run.clicked
    /\ run.ret.synthetic
    /\ history.some
    /\ history.start = run.start
    /\ history.end = run.end
    /\ history.ticker # run.ticker
    /\ Rows(run.ret.df) >= 2

\* C10: the resolved ticker returned is the formatter's value for the
\* text typed, on both paths; on the fallback path the display name is
\* the simulated-company name of the resolved ticker, so that a name of
\* the table is returned only together with the provider's series.
C10_TickerAndFallbackName ==
    run.clicked =>
        /\ run.ret.formatted_ticker = smart_ticker_formatter(run.ticker)
        /\ run.ret.synthetic =>
              run.ret.stock_name = simulated_name(run.ret.formatted_ticker)
        /\ (/\ run.ret.formatted_ticker \in DOMAIN KNOWN_CHINESE_NAMES
            /\ run.ret.stock_name = KNOWN_CHINESE_NAMES[run.ret.formatted_ticker])
              => (ProviderPath /\ ~run.ret.synthetic)

\* A ticker of the table whose fetch failed.
C10_Witness ==
    /\ run.clicked
    /\ run.ret.synthetic
    /\ run.ret.formatted_ticker \in DOMAIN KNOWN_CHINESE_NAMES
    /\ run.ret.stock_name = simulated_name(run.ret.formatted_ticker)

----------------------------------------------------------------------------
(* Properties of smart_ticker_formatter, under SpecFormatter. *)

SixDigits(s) == Len(s) = 6 /\ \A i \in 1..6 : s[i] \in Digits

\* C2, as claimed: for six digits with any leading digit the value is the
\* input with one of the exchange suffixes appended.
C2_Original ==
    (formatted.done /\ SixDigits(formatted.symbol)) =>
        formatted.value \in {formatted.symbol \o SS, formatted.symbol \o SZ,
                             formatted.symbol \o BJ}

\* C2: for six digits the value depends on the leading digit alone: 6 or 9
\* appends .SS, 0, 2 or 3 appends .SZ, 4 or 8 appends .BJ, and 1, 5 or 7
\* returns the six digits with nothing appended.
C2_SuffixByLeadingDigit ==
    (formatted.done /\ SixDigits(formatted.symbol)) =>
        formatted.value =
            CASE formatted.symbol[1] \in {"6", "9"}      -> formatted.symbol \o SS
              [] formatted.symbol[1] \in {"0", "2", "3"} -> formatted.symbol \o SZ
              [] formatted.symbol[1] \in {"4", "8"}      -> formatted.symbol \o BJ
              [] formatted.symbol[1] \in {"1", "5", "7"} -> formatted.symbol

\* Six digits that start with 2.
C2_Witness ==
    /\ formatted.done
    /\ SixDigits(formatted.symbol)
    /\ formatted.symbol[1] = "2"
    /\ formatted.value = formatted.symbol \o SZ

\* C3: the formatter gives a text for every text, and called on its own
\* value it returns that value.
C3_Idempotent ==
    /\ formatted.done => formatted.value \in Seq(STRING)
    /\ formatted.again.done => formatted.again.value = formatted.value

\* A text with whitespace before six digits: the value has the suffix, and
\* the second call has been made.
C3_Witness ==
    /\ formatted.again.done
    /\ formatted.symbol # <<>>
    /\ formatted.symbol[1] \in Whitespace
    /\ Len(formatted.value) = 9
    /\ formatted.value # formatted.symbol

----------------------------------------------------------------------------
(* Properties of add_indicators, under SpecIndicators. *)

Applied == "SMA_20" \in DOMAIN df

\* The sum of xs[from..to], each a float.
RECURSIVE SumOf(_, _, _)
SumOf(xs, from, to) ==
    IF from > to THEN Num(0) ELSE FAdd(xs[from].val, SumOf(xs, from + 1, to))

AllPresent(xs, from, to) == \A i \in from..to : ~xs[i].val.nan

\* The first window - 1 rows of column have no value.
LeadingUndefined(column, window) ==
    \A i \in 1..Len(column) : i < window => column[i].val.nan

\* Row window of column is the mean of the closes of rows 1..window.
MeanAtRow(column, window) ==
    FEq(column[window].val, FDiv(SumOf(df.Close, 1, window), Num(window)))

\* C8, as claimed: the first 19 and 49 rows have no value, and row 20 and
\* row 50 have one, the mean of the window, also when closes are missing.
C8_Original ==
    Applied =>
        /\ LeadingUndefined(df.SMA_20, WINDOW_20)
        /\ LeadingUndefined(df.SMA_50, WINDOW_50)
        /\ Rows(df) >= WINDOW_20 => ~df.SMA_20[WINDOW_20].val.nan
        /\ Rows(df) >= WINDOW_50 => ~df.SMA_50[WINDOW_50].val.nan

\* C8: the first 19 rows of SMA_20 and the first 49 of SMA_50 have no
\* value.  Row 20 (row 50) is the mean of the 20 (50) closes up to it when
\* every close of that window is a number, and has no value when one of
\* them was coerced to missing.
C8_RollingMeans ==
    Applied =>
        /\ LeadingUndefined(df.SMA_20, WINDOW_20)
        /\ LeadingUndefined(df.SMA_50, WINDOW_50)
        /\ Rows(df) >= WINDOW_20 =>
              IF AllPresent(df.Close, 1, WINDOW_20)
              THEN MeanAtRow(df.SMA_20, WINDOW_20)
              ELSE df.SMA_20[WINDOW_20].val.nan
        /\ Rows(df) >= WINDOW_50 =>
              IF AllPresent(df.Close, 1, WINDOW_50)
              THEN MeanAtRow(df.SMA_50, WINDOW_50)
              ELSE df.SMA_50[WINDOW_50].val.nan

\* Fifty rows or more with a missing close on row 21: row 20 of SMA_20 has
\* a value and row 50 of SMA_50 has none.
C8_Witness ==
    /\ Applied
    /\ Rows(df) >= WINDOW_50
    /\ df.Close[WINDOW_20 + 1].val.nan
    /\ ~df.SMA_20[WINDOW_20].val.nan
    /\ df.SMA_50[WINDOW_50].val.nan

====
